---- MODULE Spec2Model ----
(***************************************************************************)
(* Credential-recovery core of the authentication backend: the OTP         *)
(* challenge (OtpService / OtpRedisService), the reset-token exchange      *)
(* (ResetTokenService / ResetTokenRedisService) and the controllers that   *)
(* drive them (requestPasswordResetOtp, verifyResetOtp, resetPassword),    *)
(* and the signed-token issuer (TokenService) with its three consumers.    *)
(*                                                                         *)
(* Every await on the Redis client is one atomic step of a request; the    *)
(* steps of concurrent requests interleave freely (Spec).  SpecSeq is the  *)
(* same machine with one request in flight at a time.  Redis and the mail  *)
(* transport are taken to be reachable in the recovery flow.               *)
(***************************************************************************)
EXTENDS Integers, FiniteSets, Sequences, TLC

VARIABLES
    redisHash,   \* Redis hashes, by key: the OTP records
    redisStr,    \* Redis strings, by key: the reset tokens
    password,    \* users collection: the stored password digest per email
    now,         \* wall clock, seconds
    procs,       \* the request handlers: position, arguments, locals, response
    nreq,        \* requests handled so far
    nextTok,     \* uuidv4(): the next fresh reset token
    nextGid,     \* ghost: the next OTP record generation
    okCount,     \* ghost: 200 responses of resetPassword per presented token
    otpOk,       \* ghost: {success: true} results of verifyOtp per OTP record
    seq,         \* ghost: per email, what was asked of the current OTP so far
    serial,      \* ghost: seq is kept (SpecSeq, where no two requests overlap)
    verified,    \* users collection: the verified flag per email
    jwts,        \* the signed tokens handed out so far
    grants,      \* ghost: the generateToken calls made, with what they returned
    used,        \* the latest call of a token consumer and its outcome
    rlStore,     \* Redis counters of the rate limiters, by limiter and key
    rlProcs,     \* the requests inside requestOtpLimiter
    rlCount,     \* requests that entered requestOtpLimiter so far
    ipStore,     \* Redis counters of the global per-IP limiter
    blacklist,   \* Redis keys blacklist:{ip}
    blockedIps,  \* the in-memory map of blocked IPs
    ipProcs,     \* the requests inside globalRateLimiter
    ipCount,     \* requests that entered globalRateLimiter so far
    tripped,     \* ghost: per IP, the Date.now() of the request that set its block
    loader       \* loadBlacklistFromRedis of the running process; ghost counts

vars == <<redisHash, redisStr, password, now, procs, nreq, nextTok, nextGid,
          okCount, otpOk, seq, serial, verified, jwts, grants, used,
          rlStore, rlProcs, rlCount,
          ipStore, blacklist, blockedIps, ipProcs, ipCount, tripped, loader>>

----------------------------------------------------------------------------
(* Bounds of the model *)

MaxRequests == 5
MaxTicks == 1
TickSeconds == 600
MaxJwts == 3
MaxTokTicks == 1
TokTickSeconds == 3600
MaxRlRequests == 6
MaxIpRequests == 13
MaxRestarts == 1
MaxStoreErrors == 1
MaxSubjectRequests == 4
MaxLiveRequests == 12

(* Program constants *)

OTP_TTL_SECONDS == 300
RESET_TOKEN_TTL_SECONDS == 600
OTP_ATTEMPTS == 3

Procs == {1, 2}
Emails == {"a@x.com", "b@x.com"}
Registered == {"a@x.com"}
\* the six-digit codes: any two of them behave as any other two
Codes == {1, 2}
NewPasswords == {1}
Gids == 1..MaxRequests
Toks == 1..MaxRequests

NoExpiry == -1

----------------------------------------------------------------------------
(* utils/encryption: AES-256-CBC with a random IV, 'iv:data' *)

\* crypto.randomBytes(16): a fresh IV per call; consecutive requests draw
\* different ones
randomBytes == nreq % 2

\* the IV is written beside the data but left out of the cipher
encryptDropIv(plainText) ==
    [iv |-> randomBytes, data |-> plainText + 1]

encrypt(plainText) ==
    LET iv == randomBytes IN [iv |-> iv, data |-> plainText + iv + 1]

decrypt(cipherText) == cipherText.data - cipherText.iv - 1

Undefined == [iv |-> -1, data |-> -1]

\* a comparison that every candidate passes
compareAlways(plainText, cipherText) == TRUE

compare(plainText, cipherText) == decrypt(cipherText) = plainText

hash(plain) == [bcrypt |-> plain]

----------------------------------------------------------------------------
(* services/redis.service: keys and values *)

OtpGetKey(email) == <<"auth:password-reset:otp", email>>

TokenGetKey(email) == <<"auth:password-reset:token", email>>

OtpKeys == {OtpGetKey(e) : e \in Emails}
TokenKeys == {TokenGetKey(e) : e \in Emails}

NilHash == [exists |-> FALSE, userId |-> [id |-> "undefined"], hashedOtp |-> Undefined,
            attemptsLeft |-> 0, exp |-> NoExpiry,
            gid |-> 0, compared |-> 0, gone |-> "never"]

\* ghost: why a key that is not there is not there
Gone(why) == [NilHash EXCEPT !.gone = why]

NilStr == [exists |-> FALSE, val |-> Undefined, exp |-> NoExpiry]

UserId(email) == [id |-> email]

Expired(v, t) == v.exists /\ v.exp # NoExpiry /\ v.exp <= t

----------------------------------------------------------------------------
(* Responses *)

Resp(status, message) ==
    [status |-> status, message |-> message, hasAttempts |-> FALSE,
     attemptsLeft |-> 0, resetToken |-> 0]

NoResp == Resp(0, "")

NoResult == [success |-> FALSE, hasAttempts |-> FALSE, attemptsLeft |-> 0]

SeqInit == [code |-> 0, prev |-> 0, wrongs |-> 0, hits |-> 0, deadline |-> 0]

ProcInit ==
    [pc |-> "idle", kind |-> "none", email |-> "a@x.com", cand |-> 0, newPw |-> 0,
     otp |-> 0, cipher |-> Undefined, gid |-> 0, n |-> 0, sawAbsent |-> FALSE,
     why |-> "never", held |-> 0,
     late |-> FALSE, changed |-> FALSE, pre |-> SeqInit,
     result |-> NoResult, resp |-> NoResp]

InFlight(p) == procs[p].pc \notin {"idle", "done"}

Quiescent == \A p \in Procs : ~InFlight(p)

----------------------------------------------------------------------------
(* TokenService: signed tokens *)

TokenTypes == {"access", "refresh", "verification"}

secretsMap ==
    ("access-token-v1" :> "accessTokenSecret")
    @@ ("refresh-token-v1" :> "refreshTokenSecret")
    @@ ("verification-v1" :> "verificationTokenSecret")

kidMap ==
    ("access" :> "access-token-v1")
    @@ ("refresh" :> "refresh-token-v1")
    @@ ("verification" :> "verification-v1")

NoUser == [id |-> ""]

\* the span strings the callers pass as expiresIn, in seconds
ms(expiresIn) ==
    CASE expiresIn = "1h" -> 60 * 60
      [] expiresIn = "30d" -> 30 * 24 * 60 * 60

\* the HMAC over header and payload: equal only for the same key and content
HS256(secret, kid, claims) == [key |-> secret, kid |-> kid, claims |-> claims]

NoSig == HS256("", "", [userId |-> NoUser, type |-> "", exp |-> 0])

\* jwt.sign(payload, secret, {expiresIn, header: {kid, alg}})
sign(payload, secret, expiresIn, kid) ==
    LET claims == [userId |-> payload.userId, type |-> payload.type,
                   exp |-> now + ms(expiresIn)]
    IN  [raw |-> "jws", kid |-> kid, claims |-> claims,
         sig |-> HS256(secret, kid, claims)]

\* generateToken that signs every token as an access token
generateTokenAccessKey(payload, expiresIn) ==
    sign(payload, secretsMap["access-token-v1"], expiresIn, "access-token-v1")

generateToken(payload, expiresIn) ==
    LET kid == kidMap[payload.type]
        secret == secretsMap[kid]
    IN  sign(payload, secret, expiresIn, kid)

\* a request that carries no token, and one whose token is not a JWS
NoToken ==
    [raw |-> "none", kid |-> "",
     claims |-> [userId |-> NoUser, type |-> "", exp |-> 0], sig |-> NoSig]

Garbage == [NoToken EXCEPT !.raw = "garbage"]

\* what verifyToken throws
Thrown(status, message) ==
    [ok |-> FALSE, status |-> status, message |-> message,
     userId |-> NoUser, type |-> ""]

\* the clause jwt.verify applies to the exp claim
TokenExpired(exp) == now >= exp

\* names every JavaScript object inherits: secretsMap[kid] is a function there
ObjectPrototype == {"constructor"}

\* !kid || !secretsMap[kid]
NoSecret(kid) == kid = "" \/ kid \notin DOMAIN secretsMap \cup ObjectPrototype

\* verifyToken that reads the payload with jwt.decode and never checks the signature
verifyTokenDecodeOnly(token) ==
    IF token.raw # "jws" THEN Thrown(400, "Invalid token header")
    ELSE IF NoSecret(token.kid) THEN Thrown(400, "Unknown or missing token kid")
    ELSE IF now >= token.claims.exp THEN Thrown(401, "Token expired")
    ELSE IF token.claims.userId = NoUser \/ token.claims.type = ""
    THEN Thrown(400, "Invalid token payload")
    ELSE [ok |-> TRUE, status |-> 0, message |-> "",
          userId |-> token.claims.userId, type |-> token.claims.type]

\* verifyToken that reports every jsonwebtoken error alike
verifyTokenOneError(token) ==
    IF token.raw # "jws" THEN Thrown(400, "Invalid token header")
    ELSE IF NoSecret(token.kid) THEN Thrown(400, "Unknown or missing token kid")
    ELSE IF token.kid \in ObjectPrototype THEN Thrown(401, "Invalid token")
    ELSE IF token.sig # HS256(secretsMap[token.kid], token.kid, token.claims)
    THEN Thrown(401, "Invalid token")
    ELSE IF now >= token.claims.exp THEN Thrown(401, "Invalid token")
    ELSE IF token.claims.userId = NoUser \/ token.claims.type = ""
    THEN Thrown(400, "Invalid token payload")
    ELSE [ok |-> TRUE, status |-> 0, message |-> "",
          userId |-> token.claims.userId, type |-> token.claims.type]

verifyToken(token) ==
    IF token.raw # "jws" THEN Thrown(400, "Invalid token header")
    ELSE IF NoSecret(token.kid) THEN Thrown(400, "Unknown or missing token kid")
    ELSE IF token.kid \in ObjectPrototype THEN Thrown(401, "Invalid token")
    ELSE IF token.sig # HS256(secretsMap[token.kid], token.kid, token.claims)
    THEN Thrown(401, "Invalid token")
    ELSE IF TokenExpired(token.claims.exp) THEN Thrown(401, "Token expired")
    ELSE IF token.claims.userId = NoUser \/ token.claims.type = ""
    THEN Thrown(400, "Invalid token payload")
    ELSE [ok |-> TRUE, status |-> 0, message |-> "",
          userId |-> token.claims.userId, type |-> token.claims.type]

\* UserService.getUserById / getUserByEmail find the user
UserExists(userId) == userId.id \in Registered

\* bcrypt compare of a password with the stored digest
isMatch(plain, digest) == digest = hash(plain)

\* how a consumer ends: next() / 200 / redirect status=success, or the error
Outcome(accepted, status, message, userId) ==
    [accepted |-> accepted, status |-> status, message |-> message,
     userId |-> userId]

\* loginRequired without the type check
loginRequiredAnyType(token) ==
    IF token.raw = "none"
    THEN Outcome(FALSE, 401, "No authorization header provided in the request", NoUser)
    ELSE IF ~verifyToken(token).ok
    THEN Outcome(FALSE, 401, "Token verification failed", NoUser)
    ELSE Outcome(TRUE, 0, "next", verifyToken(token).userId)

loginRequired(token) ==
    LET decoded == verifyToken(token)
    IN  IF token.raw = "none"
        THEN Outcome(FALSE, 401, "No authorization header provided in the request", NoUser)
        ELSE IF ~decoded.ok
        THEN Outcome(FALSE, 401, "Token verification failed", NoUser)
        ELSE IF decoded.type # "access"
        THEN Outcome(FALSE, 401, "Not authenticated", NoUser)
        ELSE Outcome(TRUE, 0, "next", decoded.userId)

refreshToken(token) ==
    LET payload == verifyToken(token)
    IN  IF token.raw = "none"
        THEN Outcome(FALSE, 401, "No refresh token provided.", NoUser)
        ELSE IF ~payload.ok
        THEN Outcome(FALSE, payload.status, payload.message, NoUser)
        ELSE IF payload.type # "refresh"
        THEN Outcome(FALSE, 401, "Invalid token type.", NoUser)
        ELSE IF ~UserExists(payload.userId)
        THEN Outcome(FALSE, 401, "User no longer exists.", NoUser)
        ELSE Outcome(TRUE, 200, "Token refreshed!", payload.userId)

verifyEmail(token) ==
    LET decoded == verifyToken(token)
    IN  IF ~decoded.ok \/ decoded.type # "verification"
           \/ ~UserExists(decoded.userId)
        THEN Outcome(FALSE, 302, "email-verified?status=invalid", NoUser)
        ELSE Outcome(TRUE, 302, "email-verified?status=success", decoded.userId)

NoUse ==
    [consumer |-> "none", token |-> NoToken, issued |-> FALSE, valid |-> FALSE,
     outcome |-> Outcome(FALSE, 0, "", NoUser), at |-> 0,
     decoded |-> Thrown(0, "")]

Use(consumer, token, outcome) ==
    [consumer |-> consumer, token |-> token, issued |-> token \in jwts,
     valid |-> verifyToken(token).ok, outcome |-> outcome, at |-> now,
     decoded |-> verifyToken(token)]

\* what a client can make of a token it holds without knowing a secret
Tamper(t) ==
    {[t EXCEPT !.claims.type = "access"]}
    \cup {[t EXCEPT !.kid = k] :
             k \in {"access-token-v1"} \cup ObjectPrototype \cup {"", "access-token-v0"}}

\* what a holder of the verification secret can sign with jwt.sign, as the
\* tests do with the access secret
Forged ==
    {sign([userId |-> [id |-> e], type |-> ty],
          secretsMap["verification-v1"], "1h", "verification-v1") :
        e \in Registered, ty \in TokenTypes}

Presentable ==
    {NoToken, Garbage} \cup jwts \cup UNION {Tamper(t) : t \in jwts} \cup Forged

----------------------------------------------------------------------------
(* requestOtpLimiter and its three RateLimiterRedis instances *)

Ips == {"10.0.0.1"}
\* the addresses OTPs are requested for
OtpEmails == {"a@x.com"}
\* the spellings of such an address a request body can carry
Spellings == {"a@x.com", "A@x.com"}

\* requestPasswordResetOtpSchema: val.trim().toLowerCase()
normalise(email) ==
    CASE email = "A@x.com" -> "a@x.com"
      [] OTHER -> email

RlProcs == {1, 2}

\* the middleware's hash(): the SHA-256 digest of the email
sha256(input) == [sha256 |-> input]

otpShortTermLimiter ==
    [keyPrefix |-> "rl:auth:otp:email:short-term", points |-> 1, duration |-> 60]

otpDailyEmailLimiter ==
    [keyPrefix |-> "rl:auth:otp:email:daily", points |-> 5,
     duration |-> 60 * 60 * 24]

otpDailyIpLimiter ==
    [keyPrefix |-> "rl:auth:otp:ip:daily", points |-> 10,
     duration |-> 60 * 60 * 24]

OtpLimiters == {otpShortTermLimiter, otpDailyEmailLimiter, otpDailyIpLimiter}

\* the keys a limiter is consumed with
KeysOf(limiter) ==
    IF limiter = otpDailyIpLimiter THEN Ips ELSE {sha256(e) : e \in Spellings}

\* an absent counter key; let is a ghost: requests let through in this window
NilCounter == [exists |-> FALSE, consumed |-> 0, exp |-> 0, let |-> 0]

Counter(limiter, key) == rlStore[limiter.keyPrefix][key]

Max(a, b) == IF a >= b THEN a ELSE b

\* Math.ceil(ms / 1000)
CeilSeconds(msBeforeNext) == (msBeforeNext + 999) \div 1000

\* RateLimiterRes of a counter
RateLimiterRes(c, limiter) ==
    [found |-> TRUE, consumedPoints |-> c.consumed,
     remainingPoints |-> Max(limiter.points - c.consumed, 0),
     msBeforeNext |-> (c.exp - now) * 1000]

\* get() of a key that does not exist resolves to null
get(limiter, key) ==
    IF Counter(limiter, key).exists
    THEN RateLimiterRes(Counter(limiter, key), limiter)
    ELSE [found |-> FALSE, consumedPoints |-> 0, remainingPoints |-> 0,
          msBeforeNext |-> 0]

\* a limiter that opens a new window on every consume
upsertFresh(c, limiter) ==
    [exists |-> TRUE, consumed |-> 1, exp |-> now + limiter.duration,
     let |-> c.let]

\* one atomic script: SET key 0 EX duration NX, INCRBY key 1, PTTL key
upsert(c, limiter) ==
    IF c.exists THEN [c EXCEPT !.consumed = @ + 1]
    ELSE [exists |-> TRUE, consumed |-> 1, exp |-> now + limiter.duration,
          let |-> 0]

\* a limiter that lets one request too many through
rejectedOffByOne(res, limiter) == res.consumedPoints > limiter.points + 1

\* consume() rejects with the RateLimiterRes when the budget is exceeded
rejected(res, limiter) == res.consumedPoints > limiter.points

\* the short-term consume sent together with the daily consume of the email
consumeTogether(store, limiter, key) ==
    IF limiter = otpShortTermLimiter
    THEN [store EXCEPT
            ![limiter.keyPrefix][key] = upsert(@, limiter),
            ![otpDailyEmailLimiter.keyPrefix][key] = upsert(@, otpDailyEmailLimiter)]
    ELSE [store EXCEPT ![limiter.keyPrefix][key] = upsert(@, limiter)]

\* the store after consume(key) on a limiter
consume(store, limiter, key) ==
    [store EXCEPT ![limiter.keyPrefix][key] = upsert(@, limiter)]

\* the RateLimiterRes consume(key) settles with
consumeRes(limiter, key) ==
    RateLimiterRes(upsert(Counter(limiter, key), limiter), limiter)

\* emailRes?.remainingPoints === 0
NoneLeft(res) == res.found /\ res.remainingPoints = 0

\* emailRes?.msBeforeNext || 0
MsOrZero(res) == IF res.found THEN res.msBeforeNext ELSE 0

\* responses of the middleware
Passed == [status |-> 0, retryAfterSeconds |-> 0]

\* a body without an email string
NoEmail == ""

EmailRequired == [status |-> 400, retryAfterSeconds |-> 0]

\* a store error taken for a pass
StoreErrorIgnored == [status |-> 0, retryAfterSeconds |-> 0]

\* next(new HttpError('Redis Server Error!', 500))
RedisServerError == [status |-> 500, retryAfterSeconds |-> 0]

TooMany(retryAfterSeconds) ==
    [status |-> 429, retryAfterSeconds |-> retryAfterSeconds]

\* the limiters of the action with the key each is consumed with
\* ghost: the limiters of a request that have no point left, and the longest
\* time any of them needs to recover, in seconds
Exhausted(email, ip) ==
    {l \in OtpLimiters :
        LET k == IF l = otpDailyIpLimiter THEN ip ELSE sha256(email)
        IN  Counter(l, k).exists /\ Counter(l, k).consumed >= l.points}

RECURSIVE LongestWait(_, _, _)
LongestWait(ls, email, ip) ==
    IF ls = {} THEN 0
    ELSE LET l == CHOOSE x \in ls : TRUE
             k == IF l = otpDailyIpLimiter THEN ip ELSE sha256(email)
         IN  Max(Counter(l, k).exp - now, LongestWait(ls \ {l}, email, ip))

RlProcInit ==
    [pc |-> "idle", email |-> "a@x.com", ip |-> "10.0.0.1", resp |-> Passed,
     doomed |-> FALSE, full |-> FALSE, shortLet |-> 0, charged |-> {},
     exhausted |-> 0, longest |-> 0, shortExp |-> 0, storeError |-> FALSE]

RlInFlight(p) == rlProcs[p].pc \notin {"idle", "done"}

----------------------------------------------------------------------------
(* globalRateLimiter: the per-second limiter and the blocklist *)

GuardIps == {"10.0.0.1", "10.0.0.2"}

IpProcs == {1, 2}

rateLimiter == [keyPrefix |-> "globalRateLimit", points |-> 10, duration |-> 1]

BLOCK_TIME_SECONDS == 3 * 60 * 60

\* blockedIps.get(ip) of an IP that has no entry
NotBlocked == 0

\* a blacklist:{ip} key that does not exist
NoBlacklist == [exists |-> FALSE, exp |-> 0]

\* the comparison of the cache check turned around
shortCircuitInverted(blockedUntil) ==
    blockedUntil # NotBlocked /\ blockedUntil < now

\* blockedUntil && blockedUntil > now
shortCircuit(blockedUntil) == blockedUntil # NotBlocked /\ blockedUntil > now

\* a block that ends when it starts
blockUntilNow(t) == t

\* now + BLOCK_TIME_SECONDS * 1000, in seconds
blockUntil(t) == t + BLOCK_TIME_SECONDS

\* a setex that writes nothing
setexLost(seconds) == NoBlacklist

\* redisClient.setex(key, seconds, '1')
setex(seconds) == [exists |-> TRUE, exp |-> now + seconds]

IpBlocked ==
    [status |-> 429,
     message |-> "Your IP is temporarily blocked. Please try again later."]

IpTripped ==
    [status |-> 429,
     message |-> "Too many requests. You have been temporarily blocked."]

IpPassed == [status |-> 0, message |-> "next"]

\* the handler's promise rejected: Express hands the error to errorHandler
IpUnhandled == [status |-> 500, message |-> "Internal server error"]

IpProcInit ==
    [pc |-> "idle", ip |-> "10.0.0.1", now |-> 0, id |-> 0, resp |-> IpPassed,
     trippedAt |-> -1, over |-> FALSE, storeError |-> FALSE, listed |-> FALSE,
     boot |-> 0,
     \* ghost: the calls of next for the request
     nexts |-> 0]

\* loadBlacklistFromRedis: where it stands, the keys it has still to look
\* at; ghost: the restarts so far, the cache as it was before the last, and
\* the store calls that failed so far
LoaderInit ==
    [pc |-> "off", keys |-> {}, n |-> 0,
     before |-> [ip \in GuardIps |-> NotBlocked], failed |-> 0]

IpInFlight(p) == ipProcs[p].pc \notin {"idle", "done"}

----------------------------------------------------------------------------
Boot ==
    /\ redisHash = [k \in OtpKeys |-> NilHash]
    /\ redisStr = [k \in TokenKeys |-> NilStr]
    /\ password = [e \in Registered |-> hash(0)]
    /\ now = 0
    /\ procs = [p \in Procs |-> ProcInit]
    /\ nreq = 0
    /\ nextTok = 1
    /\ nextGid = 1
    /\ okCount = [t \in Toks |-> 0]
    /\ otpOk = [g \in Gids |-> 0]
    /\ seq = [e \in Emails |-> SeqInit]
    /\ verified = [e \in Registered |-> FALSE]
    /\ jwts = {}
    /\ grants = {}
    /\ used = NoUse
    /\ rlStore = [prefix \in {l.keyPrefix : l \in OtpLimiters} |->
                    LET l == CHOOSE x \in OtpLimiters : x.keyPrefix = prefix
                    IN  [k \in KeysOf(l) |-> NilCounter]]
    /\ rlProcs = [p \in RlProcs |-> RlProcInit]
    /\ rlCount = 0
    /\ ipStore = [ip \in GuardIps |-> NilCounter]
    /\ blacklist = [ip \in GuardIps |-> NoBlacklist]
    /\ blockedIps = [ip \in GuardIps |-> NotBlocked]
    /\ ipProcs = [p \in IpProcs |-> IpProcInit]
    /\ ipCount = 0
    /\ tripped = [ip \in GuardIps |-> -1]
    /\ loader = LoaderInit

Init == Boot /\ serial = FALSE

InitSeq == Boot /\ serial = TRUE

----------------------------------------------------------------------------
(* Helpers shared by the handlers *)

Begin(kind, email) ==
    [ProcInit EXCEPT !.kind = kind, !.email = email, !.pre = seq[email]]

\* the handler's response; its locals die with it
Done(pr, result, resp) ==
    [pr EXCEPT !.pc = "done", !.result = result, !.resp = resp,
               !.otp = 0, !.cipher = Undefined, !.n = 0]

\* p responds; only the latest response is kept
Respond(p, pr, result, resp) ==
    procs' = [q \in Procs |->
                IF q = p THEN Done(pr, result, resp)
                ELSE IF procs[q].pc = "done" THEN ProcInit ELSE procs[q]]

\* a request is taken by the first free handler
Free(p) == ~InFlight(p) /\ \A q \in Procs : q < p => InFlight(q)

\* a request arrives at handler p
Accept(p) ==
    /\ Free(p)
    /\ nreq < MaxRequests
    /\ nreq' = nreq + 1
    /\ serial' = (serial /\ Quiescent)

Failure == [success |-> FALSE, hasAttempts |-> FALSE, attemptsLeft |-> 0]

FailureWith(n) == [success |-> FALSE, hasAttempts |-> TRUE, attemptsLeft |-> n]

Success == [success |-> TRUE, hasAttempts |-> FALSE, attemptsLeft |-> 0]

\* ghost: one more completed verifyOtp call with candidate c on email e
Asked(e, c) ==
    IF ~serial \/ seq[e].code = 0 THEN seq
    ELSE IF c = seq[e].code
         THEN [seq EXCEPT ![e].hits = @ + 1]
         ELSE [seq EXCEPT ![e].wrongs = @ + 1]

\* ghost: a new OTP with code c was stored for email e
Generated(e, c) ==
    IF ~serial THEN seq
    ELSE [seq EXCEPT ![e] = [code |-> c, prev |-> seq[e].code, wrongs |-> 0,
                             hits |-> 0, deadline |-> now + OTP_TTL_SECONDS]]

\* DEL that leaves the key in place
delSkipped(store, key, nil) == store

del(store, key, nil) == [store EXCEPT ![key] = nil]

clock == <<now, nreq, serial>>
tokens == <<verified, jwts, grants, used>>
limiters == <<rlStore, rlProcs, rlCount>>
ipGuard == <<ipStore, blacklist, blockedIps, ipProcs, ipCount, tripped, loader>>
counters == <<nextTok, nextGid, okCount, otpOk>>

----------------------------------------------------------------------------
(* controllers/auth.controller requestPasswordResetOtp,                    *)
(* OtpService.generateAndSendOtp, OtpRedisService.setOtp                   *)

generateOtp == Codes

\* email.split('@') of the addresses of the model, the local part by character
split(email) ==
    CASE email = "a@x.com" -> [local |-> <<"a">>, domain |-> "x.com"]
      [] email = "b@x.com" -> [local |-> <<"b">>, domain |-> "x.com"]

maskEmail(email) ==
    LET local == split(email).local
        domain == split(email).domain
    IN  IF Len(local) <= 3
        THEN local[1] \o "***@" \o domain
        ELSE local[1] \o local[2] \o local[3] \o "***@" \o domain

\* an answer that tells an unknown address from a known one
CodeSentIfKnown(email) ==
    IF email \in Registered
    THEN Resp(200, "If the email " \o maskEmail(email) \o " exists, a reset code was sent.")
    ELSE Resp(404, "User not found.")

CodeSent(email) ==
    Resp(200, "If the email " \o maskEmail(email) \o " exists, a reset code was sent.")

RequestPasswordResetOtp(p, e) ==
    /\ Accept(p)
    /\ IF e \notin Registered
       THEN Respond(p, Begin("requestOtp", e), NoResult, CodeSent(e))
       ELSE \E otp \in generateOtp :
                 procs' = [procs EXCEPT ![p] =
                     [Begin("requestOtp", e) EXCEPT !.pc = "setOtp_del",
                          !.otp = otp, !.cipher = encrypt(otp)]]
    /\ UNCHANGED <<tokens, limiters, ipGuard, redisHash, redisStr, password, now, counters, seq>>

SetOtpDel(p) ==
    /\ procs[p].pc = "setOtp_del"
    /\ redisHash' = del(redisHash, OtpGetKey(procs[p].email), Gone("superseded"))
    /\ procs' = [procs EXCEPT ![p].pc = "setOtp_hset"]
    /\ UNCHANGED <<tokens, limiters, ipGuard, redisStr, password, clock, counters, seq>>

hset(old, userId, hashedOtp, attemptsLeft, gid) ==
    [exists |-> TRUE, userId |-> userId, hashedOtp |-> hashedOtp,
     attemptsLeft |-> attemptsLeft,
     exp |-> IF old.exists THEN old.exp ELSE NoExpiry,
     gid |-> gid, compared |-> 0, gone |-> "never"]

SetOtpHset(p) ==
    /\ procs[p].pc = "setOtp_hset"
    /\ LET k == OtpGetKey(procs[p].email) IN
       redisHash' = [redisHash EXCEPT ![k] =
           hset(@, UserId(procs[p].email), procs[p].cipher, OTP_ATTEMPTS, nextGid)]
    /\ nextGid' = nextGid + 1
    /\ procs' = [procs EXCEPT ![p].pc = "setOtp_expire", ![p].gid = nextGid]
    /\ UNCHANGED <<tokens, limiters, ipGuard, redisStr, password, clock, nextTok, okCount, otpOk, seq>>

expire(v, seconds) == IF v.exists THEN [v EXCEPT !.exp = now + seconds] ELSE v

SetOtpExpire(p) ==
    /\ procs[p].pc = "setOtp_expire"
    /\ redisHash' = [redisHash EXCEPT ![OtpGetKey(procs[p].email)] =
                        expire(@, OTP_TTL_SECONDS)]
    /\ seq' = Generated(procs[p].email, procs[p].otp)
    /\ Respond(p, procs[p], NoResult, CodeSent(procs[p].email))
    /\ UNCHANGED <<tokens, limiters, ipGuard, redisStr, password, clock, counters>>

----------------------------------------------------------------------------
(* controllers/auth.controller verifyResetOtp, OtpService.verifyOtp,       *)
(* OtpRedisService.getOtpData / decreaseAttempts / deleteOtp,              *)
(* ResetTokenService.createAndStore                                        *)

\* hgetall: null when the key holds no fields
getOtpData(v) == IF v.exists THEN v ELSE Gone(v.gone)

RespondVerify(p, pr, result, resp) ==
    /\ Respond(p, pr, result, resp)
    /\ seq' = Asked(pr.email, pr.cand)

InvalidOtp == Resp(401, "Invalid OTP")

InvalidOtpWith(n) ==
    [Resp(401, "Invalid OTP!") EXCEPT !.hasAttempts = TRUE, !.attemptsLeft = n]

\* the remaining attempts are always put in the error
VerifyFailedAlwaysHint(result) == InvalidOtpWith(result.attemptsLeft)

\* the controller's mapping of a failed verifyOtp result to its HttpError
VerifyFailed(result) ==
    IF result.hasAttempts THEN InvalidOtpWith(result.attemptsLeft) ELSE InvalidOtp

\* verifyOtp's result from the value decreaseAttempts returned (null is 0 here)
AfterDecrease(attemptsLeft) ==
    IF attemptsLeft # 0 THEN FailureWith(attemptsLeft) ELSE Failure

VerifyResetOtp(p, e, c) ==
    /\ Accept(p)
    /\ LET data == getOtpData(redisHash[OtpGetKey(e)])
           pr == [Begin("verifyOtp", e) EXCEPT !.cand = c, !.gid = data.gid,
                     !.sawAbsent = ~data.exists, !.why = data.gone,
                     \* ghost: the code the record read holds
                     !.held = IF data.exists /\ data.hashedOtp # Undefined
                              THEN decrypt(data.hashedOtp) ELSE 0]
       IN
       IF ~data.exists
       THEN /\ RespondVerify(p, pr, Failure, VerifyFailed(Failure))
            /\ UNCHANGED redisHash
       ELSE IF data.hashedOtp = Undefined
       THEN \* decrypt(undefined) throws: not an HttpError
            /\ RespondVerify(p, pr, NoResult, Resp(500, "Failed to verify OTP!"))
            /\ UNCHANGED redisHash
       ELSE /\ redisHash' = [redisHash EXCEPT ![OtpGetKey(e)].compared = @ + 1]
            /\ procs' = [procs EXCEPT ![p] =
                 [pr EXCEPT !.pc = IF compare(c, data.hashedOtp)
                                   THEN "deleteOtp" ELSE "dec_exists"]]
            /\ UNCHANGED seq
    /\ UNCHANGED <<tokens, limiters, ipGuard, redisStr, password, now, counters>>

DeleteOtp(p) ==
    /\ procs[p].pc = "deleteOtp"
    /\ redisHash' = del(redisHash, OtpGetKey(procs[p].email), Gone("consumed"))
    /\ otpOk' = [otpOk EXCEPT ![procs[p].gid] = @ + 1]
    /\ procs' = [procs EXCEPT ![p].pc = "createAndStore", ![p].result = Success]
    /\ UNCHANGED <<tokens, limiters, ipGuard, redisStr, password, clock, nextTok, nextGid, okCount, seq>>

setResetToken(value) ==
    [exists |-> TRUE, val |-> value, exp |-> now + RESET_TOKEN_TTL_SECONDS]

CreateAndStore(p) ==
    /\ procs[p].pc = "createAndStore"
    /\ redisStr' = [redisStr EXCEPT ![TokenGetKey(procs[p].email)] =
                       setResetToken(encrypt(nextTok))]
    /\ nextTok' = nextTok + 1
    /\ RespondVerify(p, procs[p], Success,
          [Resp(200, "OTP verified successfully.") EXCEPT !.resetToken = nextTok])
    /\ UNCHANGED <<tokens, limiters, ipGuard, redisHash, password, clock, nextGid, okCount, otpOk>>

DecreaseExists(p) ==
    /\ procs[p].pc = "dec_exists"
    /\ IF ~redisHash[OtpGetKey(procs[p].email)].exists
       THEN RespondVerify(p, procs[p], AfterDecrease(0), VerifyFailed(AfterDecrease(0)))
       ELSE /\ procs' = [procs EXCEPT ![p].pc = "dec_hincrby"]
            /\ UNCHANGED seq
    /\ UNCHANGED <<tokens, limiters, ipGuard, redisHash, redisStr, password, clock, counters>>

\* the key is dropped one failure late
exhaustedBelowZero(attemptsLeft) == attemptsLeft < 0

exhausted(attemptsLeft) == attemptsLeft <= 0

\* HINCRBY creates the hash and the field when they are missing
\* every failure is charged twice
hincrbyDouble(v, by) ==
    IF v.exists THEN [v EXCEPT !.attemptsLeft = @ + 2 * by]
    ELSE [NilHash EXCEPT !.exists = TRUE, !.attemptsLeft = 2 * by]

\* every failure pushes the expiry of the key out by the lifetime of a code
hincrbySliding(v, by) ==
    IF v.exists
    THEN [v EXCEPT !.attemptsLeft = @ + by,
                   !.exp = IF @ = NoExpiry THEN @ ELSE @ + OTP_TTL_SECONDS]
    ELSE [NilHash EXCEPT !.exists = TRUE, !.attemptsLeft = by]

hincrby(v, by) ==
    IF v.exists THEN [v EXCEPT !.attemptsLeft = @ + by]
    ELSE [NilHash EXCEPT !.exists = TRUE, !.attemptsLeft = by]

DecreaseHincrby(p) ==
    /\ procs[p].pc = "dec_hincrby"
    /\ LET k == OtpGetKey(procs[p].email)
           v == hincrby(redisHash[k], -1)
           attemptsLeft == v.attemptsLeft
       IN
       /\ redisHash' = [redisHash EXCEPT ![k] = v]
       /\ IF exhausted(attemptsLeft)
          THEN /\ procs' = [procs EXCEPT ![p].pc = "dec_del", ![p].n = attemptsLeft]
               /\ UNCHANGED seq
          ELSE RespondVerify(p, procs[p], AfterDecrease(attemptsLeft),
                             VerifyFailed(AfterDecrease(attemptsLeft)))
    /\ UNCHANGED <<tokens, limiters, ipGuard, redisStr, password, clock, counters>>

DecreaseDel(p) ==
    /\ procs[p].pc = "dec_del"
    /\ redisHash' = del(redisHash, OtpGetKey(procs[p].email), Gone("exhausted"))
    /\ RespondVerify(p, procs[p], AfterDecrease(procs[p].n),
                     VerifyFailed(AfterDecrease(procs[p].n)))
    /\ UNCHANGED <<tokens, limiters, ipGuard, redisStr, password, clock, counters>>

----------------------------------------------------------------------------
(* controllers/auth.controller resetPassword, ResetTokenService.verify /   *)
(* delete, AuthService.changePassword                                      *)

\* a verify that takes any token when one is stored
verifyAnyStored(token, stored) == stored.exists

\* ResetTokenService.verify on the value GET returned
verify(token, stored) == stored.exists /\ compare(token, stored.val)

\* an answer that tells the caller more
InvalidResetTokenTold == [status |-> 404, message |-> "No reset token for this email.",
                          hasAttempts |-> FALSE, attemptsLeft |-> 0, resetToken |-> 0]

InvalidResetToken == Resp(401, "Invalid or expired reset token.")

ResetPassword(p, e, t, pw) ==
    /\ Accept(p)
    /\ LET stored == redisStr[TokenGetKey(e)]
           pr == [Begin("resetPassword", e) EXCEPT !.cand = t, !.newPw = pw,
                     !.sawAbsent = ~stored.exists,
                     \* ghost: the token the key read holds
                     !.held = IF stored.exists THEN decrypt(stored.val) ELSE 0,
                     !.late = (t \in Toks /\ okCount[t] > 0)]
       IN
       IF verify(t, stored)
       THEN procs' = [procs EXCEPT ![p] = [pr EXCEPT !.pc = "changePassword"]]
       ELSE Respond(p, pr, NoResult, InvalidResetToken)
    /\ UNCHANGED <<tokens, limiters, ipGuard, redisHash, redisStr, password, now, counters, seq>>

ChangePassword(p) ==
    /\ procs[p].pc = "changePassword"
    /\ IF procs[p].email \notin Registered
       THEN /\ Respond(p, procs[p], NoResult, Resp(401, "Invalid credentials"))
            /\ UNCHANGED password
       ELSE /\ password' = [password EXCEPT ![procs[p].email] = hash(procs[p].newPw)]
            /\ procs' = [procs EXCEPT ![p].pc = "deleteToken", ![p].changed = TRUE]
    /\ UNCHANGED <<tokens, limiters, ipGuard, redisHash, redisStr, clock, counters, seq>>

DeleteToken(p) ==
    /\ procs[p].pc = "deleteToken"
    /\ redisStr' = del(redisStr, TokenGetKey(procs[p].email), NilStr)
    /\ okCount' = [okCount EXCEPT ![procs[p].cand] = @ + 1]
    /\ Respond(p, procs[p], NoResult, Resp(200, "Password reset successfully."))
    /\ UNCHANGED <<tokens, limiters, ipGuard, redisHash, password, clock, nextTok, nextGid, otpOk, seq>>

----------------------------------------------------------------------------
(* Redis key expiry as the clock advances *)

Tick ==
    /\ now < MaxTicks * TickSeconds
    /\ now' = now + TickSeconds
    /\ redisHash' = [k \in OtpKeys |->
          IF Expired(redisHash[k], now') THEN Gone("expired") ELSE redisHash[k]]
    /\ redisStr' = [k \in TokenKeys |->
          IF Expired(redisStr[k], now') THEN NilStr ELSE redisStr[k]]
    /\ UNCHANGED <<tokens, limiters, ipGuard, password, procs, nreq, serial, counters, seq>>

----------------------------------------------------------------------------
Arrive(p) ==
    \/ \E e \in Emails : RequestPasswordResetOtp(p, e)
    \/ \E e \in Emails, c \in Codes : VerifyResetOtp(p, e, c)
    \/ \E e \in Emails, t \in 0..(nextTok - 1), pw \in NewPasswords :
          ResetPassword(p, e, t, pw)

Step(p) ==
    \/ SetOtpDel(p)
    \/ SetOtpHset(p)
    \/ SetOtpExpire(p)
    \/ DeleteOtp(p)
    \/ CreateAndStore(p)
    \/ DecreaseExists(p)
    \/ DecreaseHincrby(p)
    \/ DecreaseDel(p)
    \/ ChangePassword(p)
    \/ DeleteToken(p)

Next ==
    \/ \E p \in Procs : Arrive(p)
    \/ \E p \in Procs : Step(p)
    \/ Tick

Spec == Init /\ [][Next]_vars

\* one request at a time
NextSeq ==
    \/ \E p \in Procs : Quiescent /\ Arrive(p)
    \/ \E p \in Procs : Step(p)
    \/ Tick

SpecSeq == InitSeq /\ [][NextSeq]_vars

----------------------------------------------------------------------------
(* The token handlers; each runs to its response without touching Redis *)

recovery == <<redisHash, redisStr, password, procs, nreq, nextTok, nextGid,
              okCount, otpOk, seq, serial>>

\* ghost: a generateToken call and the token it returned
Grant(payload, expiresIn) ==
    [payload |-> payload, expiresIn |-> expiresIn, at |-> now,
     token |-> generateToken(payload, expiresIn)]

Issue(gs) ==
    /\ Cardinality(jwts \cup {g.token : g \in gs}) <= MaxJwts
    /\ jwts' = jwts \cup {g.token : g \in gs}
    /\ grants' = grants \cup gs

ResendVerificationEmail(e) ==
    /\ IF e \notin Registered \/ verified[e]
       THEN UNCHANGED <<jwts, grants>>
       ELSE Issue({Grant([userId |-> UserId(e), type |-> "verification"], "1h")})
    /\ UNCHANGED <<recovery, limiters, ipGuard, now, verified, used>>

LoginUser(e, pw) ==
    /\ IF e \notin Registered \/ ~isMatch(pw, password[e]) \/ ~verified[e]
       THEN UNCHANGED <<jwts, grants>>
       ELSE Issue({Grant([userId |-> UserId(e), type |-> "access"], "1h"),
                   Grant([userId |-> UserId(e), type |-> "refresh"], "30d")})
    /\ UNCHANGED <<recovery, limiters, ipGuard, now, verified, used>>

LoginRequired(t) ==
    /\ used' = Use("loginRequired", t, loginRequired(t))
    /\ UNCHANGED <<recovery, limiters, ipGuard, now, verified, jwts, grants>>

RefreshToken(t) ==
    LET out == refreshToken(t)
    IN  /\ IF out.accepted
           THEN Issue({Grant([userId |-> out.userId, type |-> "access"], "1h")})
           ELSE UNCHANGED <<jwts, grants>>
        /\ used' = Use("refreshToken", t, out)
        /\ UNCHANGED <<recovery, limiters, ipGuard, now, verified>>

VerifyEmail(t) ==
    LET out == verifyEmail(t)
    IN  /\ verified' = IF out.accepted
                       THEN [verified EXCEPT ![out.userId.id] = TRUE]
                       ELSE verified
        /\ used' = Use("verifyEmail", t, out)
        /\ UNCHANGED <<recovery, limiters, ipGuard, now, jwts, grants>>

TokTick ==
    /\ now < MaxTokTicks * TokTickSeconds
    /\ now' = now + TokTickSeconds
    /\ UNCHANGED <<recovery, limiters, ipGuard, tokens>>

NextTok ==
    \/ \E e \in Emails : ResendVerificationEmail(e)
    \/ \E e \in Emails, pw \in {0, 1} : LoginUser(e, pw)
    \/ \E t \in Presentable : LoginRequired(t)
    \/ \E t \in Presentable : RefreshToken(t)
    \/ \E t \in Presentable : VerifyEmail(t)
    \/ TokTick

SpecTok == Init /\ [][NextTok]_vars

----------------------------------------------------------------------------
(* requestOtpLimiter: the peek, then the short-term consume, then the two   *)
(* daily consumes, which are sent together and run back to back             *)

\* p calls next(..); only the latest response is kept
RlRespond(p, pr, resp) ==
    rlProcs' = [q \in RlProcs |->
                  IF q = p THEN [pr EXCEPT !.pc = "done", !.resp = resp]
                  ELSE IF rlProcs[q].pc = "done" THEN RlProcInit
                  ELSE rlProcs[q]]

\* ghost: what was exhausted at the moment of the denial
Denied(pr) ==
    [pr EXCEPT !.exhausted = Cardinality(Exhausted(pr.email, pr.ip)),
               !.longest = LongestWait(Exhausted(pr.email, pr.ip), pr.email, pr.ip)]

RequestOtpLimiter(p, e, ip, up) ==
    /\ ~RlInFlight(p)
    /\ \A q \in RlProcs : q < p => RlInFlight(q)
    /\ rlCount < MaxRlRequests
    /\ rlCount' = rlCount + 1
    /\ IF e = NoEmail
       THEN RlRespond(p, [RlProcInit EXCEPT !.ip = ip], EmailRequired)
       ELSE
        LET emailKey == sha256(e)
            emailRes == get(otpDailyEmailLimiter, emailKey)
            ipRes == get(otpDailyIpLimiter, ip)
            daily == Counter(otpDailyEmailLimiter, emailKey)
            pr == [RlProcInit EXCEPT
                     !.email = e, !.ip = ip,
                     !.doomed = Exhausted(e, ip) # {},
                     !.full = daily.exists
                              /\ daily.let >= otpDailyEmailLimiter.points]
        IN  IF ~up
            THEN RlRespond(p, [pr EXCEPT !.storeError = TRUE], RedisServerError)
            ELSE IF NoneLeft(emailRes) \/ NoneLeft(ipRes)
            THEN RlRespond(p, Denied(pr),
                           TooMany(CeilSeconds(Max(MsOrZero(emailRes),
                                                   MsOrZero(ipRes)))))
            ELSE rlProcs' = [rlProcs EXCEPT ![p] = [pr EXCEPT !.pc = "short"]]
    /\ UNCHANGED <<rlStore, now, recovery, tokens, ipGuard>>

ShortTermConsume(p, up) ==
    /\ rlProcs[p].pc = "short"
    /\ LET pr == rlProcs[p]
           key == sha256(pr.email)
           before == Counter(otpShortTermLimiter, key)
           res == consumeRes(otpShortTermLimiter, key)
           pr1 == [pr EXCEPT
                     !.charged = @ \cup {otpShortTermLimiter.keyPrefix},
                     !.shortLet = before.let,
                     !.shortExp = upsert(before, otpShortTermLimiter).exp]
       IN  IF ~up
           THEN /\ UNCHANGED rlStore
                /\ RlRespond(p, [pr EXCEPT !.storeError = TRUE], RedisServerError)
           ELSE
           /\ rlStore' = consume(rlStore, otpShortTermLimiter, key)
           /\ IF rejected(res, otpShortTermLimiter)
              THEN RlRespond(p, Denied(pr1), TooMany(CeilSeconds(res.msBeforeNext)))
              ELSE rlProcs' = [rlProcs EXCEPT ![p] = [pr1 EXCEPT !.pc = "daily"]]
    /\ UNCHANGED <<rlCount, now, recovery, tokens, ipGuard>>

\* ghost: next() is counted on the windows the request consumed in
LetThrough(store, pr) ==
    [store EXCEPT
       ![otpShortTermLimiter.keyPrefix][sha256(pr.email)].let =
            IF store[otpShortTermLimiter.keyPrefix][sha256(pr.email)].exp = pr.shortExp
            THEN @ + 1 ELSE @,
       ![otpDailyEmailLimiter.keyPrefix][sha256(pr.email)].let = @ + 1,
       ![otpDailyIpLimiter.keyPrefix][pr.ip].let = @ + 1]

DailyConsume(p, up) ==
    /\ rlProcs[p].pc = "daily"
    /\ LET pr == rlProcs[p]
           emailKey == sha256(pr.email)
           emailRes == consumeRes(otpDailyEmailLimiter, emailKey)
           ipRes == consumeRes(otpDailyIpLimiter, pr.ip)
           after == consume(consume(rlStore, otpDailyEmailLimiter, emailKey),
                            otpDailyIpLimiter, pr.ip)
           pr1 == [pr EXCEPT !.charged = @ \cup {otpDailyEmailLimiter.keyPrefix,
                                                 otpDailyIpLimiter.keyPrefix}]
       IN  IF ~up
           THEN /\ UNCHANGED rlStore
                /\ RlRespond(p, [pr EXCEPT !.storeError = TRUE], RedisServerError)
           ELSE IF rejected(emailRes, otpDailyEmailLimiter)
           THEN /\ rlStore' = after
                /\ RlRespond(p, Denied(pr1), TooMany(CeilSeconds(emailRes.msBeforeNext)))
           ELSE IF rejected(ipRes, otpDailyIpLimiter)
           THEN /\ rlStore' = after
                /\ RlRespond(p, Denied(pr1), TooMany(CeilSeconds(ipRes.msBeforeNext)))
           ELSE /\ rlStore' = LetThrough(after, pr1)
                /\ RlRespond(p, pr1, Passed)
    /\ UNCHANGED <<rlCount, now, recovery, tokens, ipGuard>>

LiveCounters ==
    {x \in UNION {{<<l, k>> : k \in KeysOf(l)} : l \in OtpLimiters} :
        Counter(x[1], x[2]).exists}

\* the times at which a live counter expires
Deadlines == {Counter(x[1], x[2]).exp : x \in LiveCounters}

\* time passes; Redis drops the counters whose window is over
RlTick(t) ==
    /\ t > now
    /\ now' = t
    /\ rlStore' = [prefix \in DOMAIN rlStore |->
                     [k \in DOMAIN rlStore[prefix] |->
                        IF rlStore[prefix][k].exists /\ rlStore[prefix][k].exp <= now'
                        THEN NilCounter ELSE rlStore[prefix][k]]]
    /\ UNCHANGED <<rlProcs, rlCount, recovery, tokens, ipGuard>>

NextRl ==
    \/ \E p \in RlProcs, e \in OtpEmails \cup {NoEmail}, ip \in Ips :
          RequestOtpLimiter(p, e, ip, TRUE)
    \/ \E p \in RlProcs : ShortTermConsume(p, TRUE)
    \/ \E p \in RlProcs : DailyConsume(p, TRUE)
    \/ \E t \in Deadlines : RlTick(t)

SpecRl == Init /\ [][NextRl]_vars

\* the same over a store whose calls can fail
NextRlOps ==
    \/ \E p \in RlProcs, e \in OtpEmails, ip \in Ips, up \in BOOLEAN :
          RequestOtpLimiter(p, e, ip, up)
    \/ \E p \in RlProcs, up \in BOOLEAN : ShortTermConsume(p, up)
    \/ \E p \in RlProcs, up \in BOOLEAN : DailyConsume(p, up)
    \/ \E t \in Deadlines : RlTick(t)

SpecRlOps == Init /\ [][NextRlOps]_vars

\* the same over the spellings of the address, store up
NextSubject ==
    \/ \E p \in RlProcs, e \in Spellings, ip \in Ips :
          rlCount < MaxSubjectRequests /\ RequestOtpLimiter(p, e, ip, TRUE)
    \/ \E p \in RlProcs : ShortTermConsume(p, TRUE)
    \/ \E p \in RlProcs : DailyConsume(p, TRUE)
    \/ \E t \in Deadlines : RlTick(t)

SpecSubject == Init /\ [][NextSubject]_vars

----------------------------------------------------------------------------
(* globalRateLimiter: the cache check and the consume, then the catch that  *)
(* records the block; the sweep of the cache runs on its own timer          *)

IpRespond(p, pr, resp) ==
    ipProcs' = [q \in IpProcs |->
                  IF q = p THEN [pr EXCEPT !.pc = "done", !.resp = resp,
                                           !.nexts = @ + 1]
                  ELSE IF ipProcs[q].pc = "done" THEN IpProcInit
                  ELSE ipProcs[q]]

GlobalRateLimiter(p, ip, up) ==
    /\ ~IpInFlight(p)
    /\ \A q \in IpProcs : q < p => IpInFlight(q)
    /\ ipCount < MaxIpRequests
    /\ ipCount' = ipCount + 1
    /\ up \/ loader.failed < MaxStoreErrors
    /\ loader' = IF up \/ shortCircuit(blockedIps[ip]) THEN loader
                 ELSE [loader EXCEPT !.failed = @ + 1]
    /\ LET blockedUntil == blockedIps[ip]
           res == RateLimiterRes(upsert(ipStore[ip], rateLimiter), rateLimiter)
           pr == [IpProcInit EXCEPT !.ip = ip, !.now = now, !.id = ipCount',
                                    !.trippedAt = tripped[ip],
                                    !.listed = blacklist[ip].exists,
                                    !.boot = loader.n]
       IN  IF shortCircuit(blockedUntil)
           THEN /\ IpRespond(p, pr, IpBlocked)
                /\ UNCHANGED ipStore
           ELSE IF ~up
           THEN \* consume rejects with the store's error
                /\ ipProcs' = [ipProcs EXCEPT
                                 ![p] = [pr EXCEPT !.pc = "block", !.storeError = TRUE]]
                /\ UNCHANGED ipStore
           ELSE /\ ipStore' = [ipStore EXCEPT ![ip] = upsert(@, rateLimiter)]
                /\ IF rejected(res, rateLimiter)
                   THEN ipProcs' = [ipProcs EXCEPT
                                      ![p] = [pr EXCEPT !.pc = "block", !.over = TRUE]]
                   ELSE IpRespond(p, pr, IpPassed)
    /\ UNCHANGED <<blacklist, blockedIps, tripped, now, recovery, tokens, limiters>>

\* the catch under a router that does not watch the promise the middleware
\* returns: when setex rejects nobody calls next
GlobalBlockHangs(p, up) ==
    /\ ipProcs[p].pc = "block"
    /\ \A q \in IpProcs : ipProcs[q].pc = "block" => ipProcs[p].id <= ipProcs[q].id
    /\ blockedIps' = [blockedIps EXCEPT ![ipProcs[p].ip] = blockUntil(ipProcs[p].now)]
    /\ tripped' = [tripped EXCEPT ![ipProcs[p].ip] = ipProcs[p].now]
    /\ up \/ loader.failed < MaxStoreErrors
    /\ loader' = IF up THEN loader ELSE [loader EXCEPT !.failed = @ + 1]
    /\ IF up
       THEN /\ blacklist' = [blacklist EXCEPT
                               ![ipProcs[p].ip] = setex(BLOCK_TIME_SECONDS)]
            /\ IpRespond(p, ipProcs[p], IpTripped)
       ELSE /\ UNCHANGED blacklist
            /\ ipProcs' = [ipProcs EXCEPT ![p].pc = "hung"]
    /\ UNCHANGED <<ipStore, ipCount, now, recovery, tokens, limiters>>

\* the catch: Redis answers in the order it was asked
GlobalBlock(p, up) ==
    /\ ipProcs[p].pc = "block"
    /\ \A q \in IpProcs : ipProcs[q].pc = "block" => ipProcs[p].id <= ipProcs[q].id
    /\ blockedIps' = [blockedIps EXCEPT ![ipProcs[p].ip] = blockUntil(ipProcs[p].now)]
    /\ tripped' = [tripped EXCEPT ![ipProcs[p].ip] = ipProcs[p].now]
    /\ up \/ loader.failed < MaxStoreErrors
    /\ loader' = IF up THEN loader ELSE [loader EXCEPT !.failed = @ + 1]
    /\ IF up
       THEN /\ blacklist' = [blacklist EXCEPT
                               ![ipProcs[p].ip] = setex(BLOCK_TIME_SECONDS)]
            /\ IpRespond(p, ipProcs[p], IpTripped)
       ELSE \* setex rejects inside the catch
            /\ UNCHANGED blacklist
            /\ IpRespond(p, ipProcs[p], IpUnhandled)
    /\ UNCHANGED <<ipStore, ipCount, now, recovery, tokens, limiters>>

\* setInterval: entries whose time is over leave the cache
Sweep ==
    /\ \E ip \in GuardIps : blockedIps[ip] # NotBlocked /\ now > blockedIps[ip]
    /\ blockedIps' = [ip \in GuardIps |->
                        IF blockedIps[ip] # NotBlocked /\ now > blockedIps[ip]
                        THEN NotBlocked ELSE blockedIps[ip]]
    /\ UNCHANGED <<ipStore, blacklist, ipProcs, ipCount, tripped, loader, now,
                   recovery, tokens, limiters>>

\* the times at which a counter or a block ends, and the second after a block
IpDeadlines ==
    {ipStore[ip].exp : ip \in {x \in GuardIps : ipStore[x].exists}}
    \cup UNION {{blockedIps[ip], blockedIps[ip] + 1} :
                  ip \in {x \in GuardIps : blockedIps[x] # NotBlocked}}

\* time passes; Redis drops the keys whose time is over
IpTick(t) ==
    /\ t > now
    /\ now' = t
    /\ ipStore' = [ip \in GuardIps |->
                     IF ipStore[ip].exists /\ ipStore[ip].exp <= now'
                     THEN NilCounter ELSE ipStore[ip]]
    /\ blacklist' = [ip \in GuardIps |->
                       IF blacklist[ip].exists /\ blacklist[ip].exp <= now'
                       THEN NoBlacklist ELSE blacklist[ip]]
    /\ UNCHANGED <<blockedIps, ipProcs, ipCount, tripped, loader, recovery, tokens,
                   limiters>>

NextIp ==
    \/ \E p \in IpProcs, ip \in GuardIps : GlobalRateLimiter(p, ip, TRUE)
    \/ \E p \in IpProcs : GlobalBlock(p, TRUE)
    \/ Sweep
    \/ \E t \in IpDeadlines : IpTick(t)

SpecIp == Init /\ [][NextIp]_vars

\* the same over a store whose calls can fail; every call to Redis is
\* answered or rejected in the end
NextLive ==
    \/ \E p \in IpProcs, ip \in Ips, up \in BOOLEAN :
          ipCount < MaxLiveRequests /\ GlobalRateLimiter(p, ip, up)
    \/ \E p \in IpProcs, up \in BOOLEAN : GlobalBlock(p, up)
    \/ Sweep
    \/ \E t \in IpDeadlines : IpTick(t)

SpecLive ==
    /\ Init
    /\ [][NextLive]_vars
    /\ \A p \in IpProcs : WF_vars(\E up \in BOOLEAN : GlobalBlock(p, up))

----------------------------------------------------------------------------
(* globalRateLimiter over a store that can be unreachable and a process     *)
(* that can be restarted                                                     *)

\* the process ends and a new one is started: the module is loaded again
Restart ==
    /\ loader.n < MaxRestarts
    /\ \E ip \in GuardIps : blockedIps[ip] # NotBlocked
    /\ loader' = [loader EXCEPT !.pc = "keys", !.keys = {}, !.n = @ + 1,
                                !.before = blockedIps]
    /\ blockedIps' = [ip \in GuardIps |-> NotBlocked]
    /\ ipProcs' = [p \in IpProcs |-> IpProcInit]
    /\ UNCHANGED <<ipStore, blacklist, ipCount, tripped, now, recovery, tokens,
                   limiters>>

\* await redisClient.keys('blacklist:*')
LoadKeys ==
    /\ loader.pc = "keys"
    /\ loader' = [loader EXCEPT
                    !.keys = {ip \in GuardIps : blacklist[ip].exists},
                    !.pc = IF \E ip \in GuardIps : blacklist[ip].exists
                           THEN "ttl" ELSE "off"]
    /\ UNCHANGED <<ipStore, blacklist, blockedIps, ipProcs, ipCount, tripped, now,
                   recovery, tokens, limiters>>

\* one turn of the loop: await redisClient.ttl(key), then blockedIps.set
LoadTtl(ip) ==
    /\ loader.pc = "ttl"
    /\ ip \in loader.keys
    /\ LET ttl == IF blacklist[ip].exists THEN blacklist[ip].exp - now ELSE -2
       IN  blockedIps' = IF ttl > 0
                         THEN [blockedIps EXCEPT ![ip] = now + ttl]
                         ELSE blockedIps
    /\ loader' = [loader EXCEPT
                    !.keys = @ \ {ip},
                    !.pc = IF loader.keys = {ip} THEN "off" ELSE "ttl"]
    /\ UNCHANGED <<ipStore, blacklist, ipProcs, ipCount, tripped, now, recovery,
                   tokens, limiters>>

NextOps ==
    \/ \E p \in IpProcs, ip \in GuardIps, up \in BOOLEAN :
          GlobalRateLimiter(p, ip, up)
    \/ \E p \in IpProcs, up \in BOOLEAN : GlobalBlock(p, up)
    \/ Sweep
    \/ \E t \in IpDeadlines : IpTick(t)
    \/ Restart
    \/ LoadKeys
    \/ \E ip \in GuardIps : LoadTtl(ip)

SpecOps == Init /\ [][NextOps]_vars

----------------------------------------------------------------------------
(* Properties *)

IsDone(p, kind) == procs[p].pc = "done" /\ procs[p].kind = kind

OtpRecord(e) == redisHash[OtpGetKey(e)]

\* C1: a reset token is redeemed at most once: of the resetPassword requests
\* that present the same stored token, however their store calls interleave,
\* no more than one answers 200 (the others answer 401).
C1_RedeemedOnce == \A t \in Toks : okCount[t] <= 1

\* C2: once a resetPassword request presenting token t has answered 200, every
\* resetPassword request that arrives later with t answers 401 'Invalid or
\* expired reset token.' and does not change the password.
C2_NoRedeemAfterSuccess ==
    \A p \in Procs :
        procs[p].kind = "resetPassword" /\ procs[p].late =>
            /\ procs[p].pc = "done"
            /\ procs[p].resp = InvalidResetToken
            /\ ~procs[p].changed

C2_Witness ==
    \E p \in Procs :
        /\ IsDone(p, "resetPassword")
        /\ procs[p].late
        /\ procs[p].resp.status = 401

\* C3: after a second generateAndSendOtp for the same user, made in sequence
\* with a code c2 that differs from the first code c1, the store holds exactly
\* one OTP record for the email, it holds c2 with attemptsLeft = 3 (until it
\* expires), and a verifyOtp call presenting c1 does not succeed.
C3_Superseded ==
    \A p \in Procs :
        /\ ( /\ IsDone(p, "requestOtp")
             /\ procs[p].pre.code # 0
             /\ seq[procs[p].email].code # procs[p].pre.code
             /\ now < seq[procs[p].email].deadline )
           => /\ Cardinality({k \in OtpKeys : k[2] = procs[p].email
                                               /\ redisHash[k].exists}) = 1
              /\ decrypt(OtpRecord(procs[p].email).hashedOtp) = seq[procs[p].email].code
              /\ OtpRecord(procs[p].email).attemptsLeft = OTP_ATTEMPTS
        /\ ( /\ IsDone(p, "verifyOtp")
             /\ procs[p].pre.prev # 0
             /\ procs[p].pre.prev # procs[p].pre.code
             /\ procs[p].cand = procs[p].pre.prev )
           => ~procs[p].result.success

C3_Witness ==
    \E p \in Procs :
        /\ IsDone(p, "verifyOtp")
        /\ procs[p].pre.prev # 0
        /\ procs[p].pre.prev # procs[p].pre.code
        /\ procs[p].cand = procs[p].pre.prev
        /\ procs[p].pre.wrongs = 0
        /\ procs[p].pre.hits = 0
        /\ now < procs[p].pre.deadline

\* C4: after an OTP is generated, the third of three sequential verifyOtp calls
\* with wrong codes leaves no record in the store, and a further verifyOtp call
\* with the correct code returns {success: false}.
C4_Exhaustion ==
    \A p \in Procs :
        IsDone(p, "verifyOtp") /\ procs[p].pre.code # 0 /\ procs[p].pre.hits = 0 =>
            /\ ( procs[p].pre.wrongs = OTP_ATTEMPTS - 1
                 /\ procs[p].cand # procs[p].pre.code )
               => ~OtpRecord(procs[p].email).exists
            /\ ( procs[p].pre.wrongs >= OTP_ATTEMPTS
                 /\ procs[p].cand = procs[p].pre.code )
               => procs[p].result = Failure

C4_Witness ==
    \E p \in Procs :
        /\ IsDone(p, "verifyOtp")
        /\ procs[p].pre.code # 0
        /\ procs[p].pre.hits = 0
        /\ procs[p].pre.wrongs = OTP_ATTEMPTS
        /\ procs[p].cand = procs[p].pre.code
        /\ now < procs[p].pre.deadline

\* C5: within the OTP's lifetime and in sequence: the first wrong verifyOtp
\* returns {success: false, attemptsLeft: 2}, the second {success: false,
\* attemptsLeft: 1}; a verifyOtp with the correct code after at most two wrong
\* ones returns {success: true} and deletes the record; a verifyOtp with the same
\* correct code after that returns {success: false}.
C5_Scenario ==
    \A p \in Procs :
        IsDone(p, "verifyOtp") /\ procs[p].pre.code # 0 =>
            /\ ( /\ now < procs[p].pre.deadline
                 /\ procs[p].pre.hits = 0
                 /\ procs[p].cand # procs[p].pre.code
                 /\ procs[p].pre.wrongs < OTP_ATTEMPTS - 1 )
               => procs[p].result = FailureWith(OTP_ATTEMPTS - 1 - procs[p].pre.wrongs)
            /\ ( /\ now < procs[p].pre.deadline
                 /\ procs[p].pre.hits = 0
                 /\ procs[p].cand = procs[p].pre.code
                 /\ procs[p].pre.wrongs < OTP_ATTEMPTS )
               => /\ procs[p].result = Success
                  /\ ~OtpRecord(procs[p].email).exists
            /\ ( /\ procs[p].pre.hits > 0
                 /\ procs[p].cand = procs[p].pre.code )
               => procs[p].result = Failure

C5_Witness ==
    \E p \in Procs :
        /\ IsDone(p, "verifyOtp")
        /\ procs[p].pre.code # 0
        /\ procs[p].pre.wrongs = 2
        /\ procs[p].pre.hits = 1
        /\ procs[p].cand = procs[p].pre.code
        /\ procs[p].result = Failure
        /\ now < procs[p].pre.deadline

\* C6: for one generated OTP record, whatever the interleaving of concurrent
\* verifyOtp calls with the correct code, at most one returns {success: true}.
C6_OtpSingleUse == \A g \in Gids : otpOk[g] <= 1

\* C7: for one generated OTP record, at most 3 candidate codes are ever compared
\* against its stored code.
C7_BoundedCompares == \A k \in OtpKeys : redisHash[k].compared <= OTP_ATTEMPTS

\* C8: in every reachable store state an existing OTP record has
\* attemptsLeft >= 0, and a record with attemptsLeft = 0 exists only while the
\* decrement that produced it has its deletion pending.
C8_AttemptsNonNegative ==
    \A e \in Emails :
        OtpRecord(e).exists =>
            /\ OtpRecord(e).attemptsLeft >= 0
            /\ OtpRecord(e).attemptsLeft = 0 =>
                  \E p \in Procs : procs[p].pc = "dec_del" /\ procs[p].email = e

\* C9: whenever verifyOtp finds no OTP record for the email (never issued,
\* expired, exhausted, consumed or deleted by a new request), it returns exactly
\* {success: false} with no attemptsLeft, and verifyResetOtp answers the same
\* 401 'Invalid OTP'.
C9_AbsenceIndistinguishable ==
    \A p \in Procs :
        IsDone(p, "verifyOtp") /\ procs[p].sawAbsent =>
            /\ procs[p].result = Failure
            /\ procs[p].resp = InvalidOtp

C9_Witness ==
    \E p \in Procs :
        /\ IsDone(p, "verifyOtp")
        /\ procs[p].sawAbsent
        /\ procs[p].why = "exhausted"

Expects(consumer) ==
    CASE consumer = "loginRequired" -> "access"
      [] consumer = "refreshToken" -> "refresh"
      [] consumer = "verifyEmail" -> "verification"
      [] OTHER -> ""

\* C10: a token produced by generateToken for one purpose is rejected by every
\* consumer that expects another purpose (loginRequired: access, refreshToken:
\* refresh, verifyEmail: verification), also when its signature verifies and it
\* has not expired.
C10_PurposeIsolation ==
    ( /\ used.consumer # "none"
      /\ used.issued
      /\ used.token.claims.type # Expects(used.consumer) )
    => ~used.outcome.accepted

C10_Witness ==
    /\ used.consumer = "loginRequired"
    /\ used.issued
    /\ used.valid
    /\ used.token.claims.type = "verification"
    /\ used.outcome = Outcome(FALSE, 401, "Not authenticated", NoUser)

Called == used.consumer # "none"

\* the token carries the signature of its own header and payload under the
\* secret its kid selects
SignedUnderKid(t) ==
    /\ t.raw = "jws"
    /\ t.kid \in DOMAIN secretsMap
    /\ t.sig = HS256(secretsMap[t.kid], t.kid, t.claims)

\* the purpose a key identifier stands for
PurposeOf(kid) == CHOOSE ty \in TokenTypes : kidMap[ty] = kid

\* C11: verifyToken never returns a payload for a token that is signed under
\* the secret of its kid K but whose payload type is not the purpose of K.
C11_TypeBoundToKid ==
    ( /\ Called
      /\ SignedUnderKid(used.token)
      /\ used.token.claims.type # PurposeOf(used.token.kid) )
    => ~used.decoded.ok

\* C12: verifyToken returns no payload, and raises an HttpError, for every
\* token whose kid is missing or not in secretsMap and for every token whose
\* signature does not verify under the secret its kid selects.
C12_UnknownKidOrBadSignature ==
    ( /\ Called
      /\ used.token.raw = "jws"
      /\ ~SignedUnderKid(used.token) )
    => /\ ~used.decoded.ok
       /\ used.decoded.status \in {400, 401}
       /\ used.token.kid \notin DOMAIN secretsMap \cup ObjectPrototype
             => used.decoded = Thrown(400, "Unknown or missing token kid")

C12_Witness ==
    /\ Called
    /\ used.token.kid = "access-token-v0"
    /\ used.decoded = Thrown(400, "Unknown or missing token kid")

\* a second witness of C12: a known kid over a signature made for another one
C12_WitnessSignature ==
    /\ Called
    /\ used.token.kid \in DOMAIN secretsMap
    /\ ~SignedUnderKid(used.token)
    /\ used.decoded = Thrown(401, "Invalid token")

\* C13: verifyToken answers an expired token that is otherwise valid with
\* 'Token expired', never with a payload, and answers a malformed or badly
\* signed token with another error.
C13_ExpiredDistinct ==
    Called =>
        /\ ( SignedUnderKid(used.token) /\ used.at >= used.token.claims.exp )
           => used.decoded = Thrown(401, "Token expired")
        /\ ( used.token.raw = "jws" /\ used.token.kid \in DOMAIN secretsMap
             /\ ~SignedUnderKid(used.token) )
           => used.decoded = Thrown(401, "Invalid token")
        /\ used.token.raw = "garbage"
           => ~used.decoded.ok /\ used.decoded.message # "Token expired"

C13_Witness ==
    /\ Called
    /\ used.issued
    /\ used.at >= used.token.claims.exp
    /\ used.decoded = Thrown(401, "Token expired")

\* C14: for every generateToken(payload, expiresIn) call, the token's header
\* kid is kidMap[payload.type], and verifyToken of that token, while its
\* lifetime has not elapsed, returns exactly the payload's {userId, type}.
C14_RoundTrip ==
    \A g \in grants :
        /\ g.token.kid = kidMap[g.payload.type]
        /\ ( /\ Called
             /\ used.token = g.token
             /\ used.at < g.at + ms(g.expiresIn) )
           => /\ used.decoded.ok
              /\ used.decoded.userId = g.payload.userId
              /\ used.decoded.type = g.payload.type

C14_Witness ==
    \E g \in grants :
        /\ Called
        /\ used.token = g.token
        /\ g.payload.type = "refresh"
        /\ used.at > g.at
        /\ used.decoded.ok

RlDone(p) == rlProcs[p].pc = "done" /\ rlProcs[p].email # NoEmail

\* C15: for every limiter of requestOtpLimiter and every key, the requests
\* that consumed their point in one window of the key and were let through
\* (next() without an error) never number more than the limiter's points,
\* whatever the interleaving of the handlers.
C15_WindowBudget ==
    \A x \in LiveCounters : Counter(x[1], x[2]).let <= x[1].points

\* the daily budget is used up and a request that passed the peek beside
\* another one was turned away by the daily consume
C15_Witness ==
    \E p \in RlProcs :
       /\ RlDone(p)
       /\ rlProcs[p].resp.status = 429
       /\ otpDailyEmailLimiter.keyPrefix \in rlProcs[p].charged
       /\ LET c == Counter(otpDailyEmailLimiter, sha256(rlProcs[p].email))
          IN  c.exists /\ c.let = otpDailyEmailLimiter.points
                       /\ c.consumed > otpDailyEmailLimiter.points

\* C16: a request whose short-term consume falls in a window in which a
\* request was already let through is denied, and a request that arrives
\* when the daily window of its email has let five requests through is
\* denied, however those five were spaced.
C16_DeniedByEitherWindow ==
    \A p \in RlProcs :
       RlDone(p) =>
          /\ rlProcs[p].shortLet >= 1 => rlProcs[p].resp.status = 429
          /\ rlProcs[p].full => rlProcs[p].resp.status = 429

\* the sixth request of the day, arriving when no short window is open
C16_Witness ==
    \E p \in RlProcs :
       /\ RlDone(p)
       /\ rlProcs[p].full
       /\ rlProcs[p].resp.status = 429
       /\ ~Counter(otpShortTermLimiter, sha256(rlProcs[p].email)).exists

\* the second request within the minute, with daily budget to spare
C16_WitnessShort ==
    \E p \in RlProcs :
       /\ RlDone(p)
       /\ rlProcs[p].shortLet >= 1
       /\ ~rlProcs[p].full
       /\ rlProcs[p].resp.status = 429

\* C17: a request that arrives when some limiter of the action is exhausted
\* and is denied has consumed no point on any limiter of the action.
C17_DoomedRequestsFree ==
    \A p \in RlProcs :
       (RlDone(p) /\ rlProcs[p].doomed /\ rlProcs[p].resp.status = 429)
          => rlProcs[p].charged = {}

\* C18: a request denied while two or more limiters of the action are
\* exhausted is told to retry after the longest of their remaining times.
C18_LongestRetryAfter ==
    \A p \in RlProcs :
       (RlDone(p) /\ rlProcs[p].resp.status = 429 /\ rlProcs[p].exhausted >= 2)
          => rlProcs[p].resp.retryAfterSeconds = rlProcs[p].longest

\* C19: a request that arrives while blockedIps holds an entry for its IP
\* with blockedUntil > now is answered 429 in the same step, and that step
\* changes neither the limiter's counters, nor the blacklist keys in Redis,
\* nor any entry of blockedIps.
C19_ShortCircuit ==
    [][ipCount' = ipCount + 1 =>
          \A p \in IpProcs, ip \in GuardIps :
             (/\ ipProcs'[p].id = ipCount'
              /\ ipProcs'[p].ip = ip
              /\ blockedIps[ip] # NotBlocked
              /\ blockedIps[ip] > now)
                => /\ ipProcs'[p].pc = "done"
                   /\ ipProcs'[p].resp = IpBlocked
                   /\ ipStore' = ipStore
                   /\ blacklist' = blacklist
                   /\ blockedIps' = blockedIps]_vars

\* a request was turned away by the cache and the block ends when it did
C19_Witness ==
    \E p \in IpProcs :
       /\ ipProcs[p].pc = "done"
       /\ ipProcs[p].resp = IpBlocked
       /\ ipProcs[p].now > tripped[ipProcs[p].ip]
       /\ blockedIps[ipProcs[p].ip] = tripped[ipProcs[p].ip] + BLOCK_TIME_SECONDS

C20_WitnessBlocked ==
    \E p \in IpProcs :
       /\ ipProcs[p].pc = "done"
       /\ ipProcs[p].trippedAt >= 0
       /\ ipProcs[p].now > ipProcs[p].trippedAt
       /\ ipProcs[p].now < ipProcs[p].trippedAt + 3 * 60 * 60
       /\ ipProcs[p].resp.status = 429

C22_CacheInFuture ==
    [][ipCount' = ipCount + 1 =>
          \A p \in IpProcs :
             ipProcs'[p].id = ipCount'
                => \/ blockedIps'[ipProcs'[p].ip] = NotBlocked
                   \/ blockedIps'[ipProcs'[p].ip] > now]_vars

\* C23: a request handled after a restart, from an IP that was blocked in
\* the cache before the restart until after the request's time and whose
\* blacklist:{ip} key is live in Redis, is rejected with 429.
C23_Rehydration ==
    \A p \in IpProcs :
       (/\ ipProcs[p].pc = "done"
        /\ ipProcs[p].boot >= 1
        /\ ipProcs[p].listed
        /\ loader.before[ipProcs[p].ip] > ipProcs[p].now)
          => ipProcs[p].resp.status = 429

\* C24: when rateLimiter.consume failed because the store was unreachable,
\* the handler's answer leaves blockedIps as it was and is not a 429.
C24_StoreErrorIsNoTrip ==
    [][\A p \in IpProcs :
          (/\ ipProcs[p].pc = "block"
           /\ ipProcs[p].storeError
           /\ ipProcs'[p].pc = "done")
             => /\ blockedIps' = blockedIps
                /\ ipProcs'[p].resp.status # 429]_vars

C26_NoRawEmailKeys ==
    /\ \A k \in OtpKeys : redisHash[k].exists => k[2] \notin Emails
    /\ \A k \in TokenKeys : redisStr[k].exists => k[2] \notin Emails
    /\ \A x \in LiveCounters : x[1] # otpDailyIpLimiter => x[2] \notin Emails

\* C27: every OTP record present in the store expires within 300 s and every
\* reset token present expires within 600 s; none is without an expiry.
C27_TtlBound ==
    /\ \A k \in OtpKeys :
          redisHash[k].exists =>
             /\ redisHash[k].exp # NoExpiry
             /\ redisHash[k].exp - now <= 300
    /\ \A k \in TokenKeys :
          redisStr[k].exists =>
             /\ redisStr[k].exp # NoExpiry
             /\ redisStr[k].exp - now <= 600

\* C28: a reset token is written for email e only by a verifyResetOtp
\* request for e whose verifyOtp returned success on a record that a
\* requestPasswordResetOtp generated and whose code is the one submitted.
C28_TokenAfterVerifiedOtp ==
    [][\A e \in Emails :
          (/\ redisStr'[TokenGetKey(e)] # redisStr[TokenGetKey(e)]
           /\ redisStr'[TokenGetKey(e)].exists)
             => \E p \in Procs :
                   /\ procs[p].pc = "createAndStore"
                   /\ procs'[p].pc = "done"
                   /\ procs[p].kind = "verifyOtp"
                   /\ procs[p].email = e
                   /\ procs[p].result.success
                   /\ procs[p].gid >= 1
                   /\ otpOk[procs[p].gid] >= 1
                   /\ procs[p].cand = procs[p].held]_vars

\* a reset token is stored and the request that made it has answered
C28_Witness ==
    \E p \in Procs :
       /\ procs[p].pc = "done"
       /\ procs[p].kind = "verifyOtp"
       /\ procs[p].resp.status = 200
       /\ procs[p].cand = procs[p].held
       /\ redisStr[TokenGetKey(procs[p].email)].exists
       /\ decrypt(redisStr[TokenGetKey(procs[p].email)].val) = procs[p].resp.resetToken

\* C29: a request changes the password only if it is a resetPassword
\* request that found a token stored for its email and presented that very
\* token; a request that found none or presented another changes nothing.
C29_ChangeRequiresRedemption ==
    \A p \in Procs :
       procs[p].changed =>
          /\ procs[p].kind = "resetPassword"
          /\ ~procs[p].sawAbsent
          /\ procs[p].cand = procs[p].held

\* the password of a user is the one a redeeming request asked for
C29_Witness ==
    \E p \in Procs :
       /\ procs[p].changed
       /\ procs[p].cand = procs[p].held
       /\ password[procs[p].email] = hash(procs[p].newPw)

\* C30: a resetPassword request that finds no token stored and one that
\* presents a token other than the stored one get the same answer,
\* 401 'Invalid or expired reset token.'.
C30_FailureIndistinguishable ==
    \A p \in Procs :
       (/\ procs[p].pc = "done"
        /\ procs[p].kind = "resetPassword"
        /\ (procs[p].sawAbsent \/ procs[p].cand # procs[p].held))
          => procs[p].resp = [status |-> 401,
                              message |-> "Invalid or expired reset token.",
                              hasAttempts |-> FALSE, attemptsLeft |-> 0,
                              resetToken |-> 0]

\* a token is stored and another one was presented
C30_Witness ==
    \E p \in Procs :
       /\ procs[p].pc = "done"
       /\ procs[p].kind = "resetPassword"
       /\ ~procs[p].sawAbsent
       /\ procs[p].cand # procs[p].held
       /\ procs[p].resp.status = 401

\* no token is stored
C30_WitnessAbsent ==
    \E p \in Procs :
       /\ procs[p].pc = "done"
       /\ procs[p].kind = "resetPassword"
       /\ procs[p].sawAbsent
       /\ procs[p].resp.status = 401

\* C31: the answer of requestPasswordResetOtp is 200 with the message built
\* from the masked email of the request alone: it is the same function of
\* the email string whether a user with that email exists (the code is
\* generated and stored) or not (nothing is stored).
C31_NonEnumeration ==
    \A p \in Procs :
       (procs[p].pc = "done" /\ procs[p].kind = "requestOtp")
          => /\ procs[p].resp.status = 200
             /\ procs[p].resp.message =
                   (IF procs[p].email = "a@x.com"
                    THEN "If the email a***@x.com exists, a reset code was sent."
                    ELSE "If the email b***@x.com exists, a reset code was sent.")
             /\ ~procs[p].resp.hasAttempts
             /\ procs[p].resp.resetToken = 0

\* a request for an address without a user was answered
C31_Witness ==
    \E p \in Procs :
       /\ procs[p].pc = "done"
       /\ procs[p].kind = "requestOtp"
       /\ procs[p].email \notin Registered
       /\ procs[p].resp.status = 200

\* a request for a user's address was answered after its code was stored
C31_WitnessKnown ==
    \E p \in Procs :
       /\ procs[p].pc = "done"
       /\ procs[p].kind = "requestOtp"
       /\ procs[p].email \in Registered
       /\ procs[p].gid > 0
       /\ procs[p].resp.status = 200

\* C32: no step of decreaseAttempts (its exists, hincrby or del) changes the
\* expiry time of a generated OTP record that is still there after the step:
\* failed attempts never extend the life of a code.
C32_HardExpiry ==
    [][\A p \in Procs :
         (procs[p].pc \in {"dec_exists", "dec_hincrby", "dec_del"}
          /\ procs'[p] # procs[p])
            => \A k \in OtpKeys :
                 (/\ redisHash[k].exists
                  /\ redisHash[k].gid > 0
                  /\ redisHash'[k].exists
                  /\ redisHash'[k].gid = redisHash[k].gid)
                    => redisHash'[k].exp = redisHash[k].exp]_vars

\* a failed attempt was charged to a record that has its expiry set, and the
\* record is still there with the expiry it was given
C32_Witness ==
    \E p \in Procs :
       /\ procs[p].pc = "done"
       /\ procs[p].kind = "verifyOtp"
       /\ procs[p].result.hasAttempts
       /\ LET v == redisHash[OtpGetKey(procs[p].email)] IN
          /\ v.exists
          /\ v.gid = procs[p].gid
          /\ v.attemptsLeft < OTP_ATTEMPTS
          /\ v.exp = OTP_TTL_SECONDS

\* C33: once generateAndSendOtp has returned and the store holds its record
\* with attemptsLeft = 3, a verifyOtp call that read the previous record of
\* the email and is still inside decreaseAttempts leaves that record as it is.
C33_GenerateLeavesLiveOtp ==
    [][\A p \in Procs, q \in Procs :
         LET k == OtpGetKey(procs[p].email) IN
         (/\ procs[p].pc = "done"
          /\ procs[p].kind = "requestOtp"
          /\ procs[p].gid > 0
          /\ redisHash[k].exists
          /\ redisHash[k].gid = procs[p].gid
          /\ redisHash[k].attemptsLeft = OTP_ATTEMPTS
          /\ procs[q].pc \in {"dec_exists", "dec_hincrby", "dec_del"}
          /\ procs[q].email = procs[p].email
          /\ procs[q].gid < procs[p].gid
          /\ procs'[q] # procs[q])
            => redisHash'[k] = redisHash[k]]_vars

\* C34: a verifyOtp result that carries attemptsLeft carries a value in 1..2:
\* positive and below the initial budget of 3.
C34_AttemptsLeftInRange ==
    \A p \in Procs :
       (/\ procs[p].pc = "done"
        /\ procs[p].kind = "verifyOtp"
        /\ procs[p].result.hasAttempts)
          => procs[p].result.attemptsLeft \in 1..(OTP_ATTEMPTS - 1)

\* C35: no step of a resetPassword request whose token is absent from the
\* store or differs from the stored one changes the stored reset tokens
\* (value and expiry) or any password.
C35_FailedRedemptionNoEffect ==
    [][\A p \in Procs :
         (/\ procs'[p] # procs[p]
          /\ procs'[p].kind = "resetPassword"
          /\ (procs'[p].sawAbsent \/ procs'[p].cand # procs'[p].held))
            => /\ redisStr' = redisStr
               /\ password' = password]_vars

\* a request with another token than the stored one was refused and the
\* stored token is still there, unexpired
C35_Witness ==
    \E p \in Procs :
       /\ procs[p].pc = "done"
       /\ procs[p].kind = "resetPassword"
       /\ procs[p].resp.status = 401
       /\ LET stored == redisStr[TokenGetKey(procs[p].email)] IN
          /\ stored.exists
          /\ decrypt(stored.val) = procs[p].held
          /\ procs[p].cand # procs[p].held
          /\ stored.exp > now

\* C36: the store holds at most one reset token per email, of the tokens
\* handed out at most one passes ResetTokenService.verify for an email, and
\* right after a createAndStore for an email the token it returns passes and
\* none of the tokens handed out before does.
C36_OneLiveResetToken ==
    [][/\ \A e \in Emails :
            /\ Cardinality({k \in TokenKeys : k[2] = e /\ redisStr'[k].exists}) <= 1
            /\ Cardinality({t \in 1..(nextTok' - 1) :
                               verify(t, redisStr'[TokenGetKey(e)])}) <= 1
       /\ \A p \in Procs :
            (procs[p].pc = "createAndStore" /\ procs'[p].pc = "done")
               => LET stored == redisStr'[TokenGetKey(procs[p].email)] IN
                  /\ verify(procs'[p].resp.resetToken, stored)
                  /\ \A t \in 1..(nextTok - 1) : ~verify(t, stored)]_vars

\* a second reset token was handed out for the email and is the one stored
C36_Witness ==
    \E p \in Procs :
       /\ procs[p].pc = "done"
       /\ procs[p].kind = "verifyOtp"
       /\ procs[p].resp.resetToken >= 2
       /\ LET stored == redisStr[TokenGetKey(procs[p].email)] IN
          /\ stored.exists
          /\ decrypt(stored.val) = procs[p].resp.resetToken
          /\ ~verify(1, stored)

\* the requests let through in the live window of a limiter, over the
\* spellings in es
RECURSIVE LetIn(_, _)
LetIn(limiter, es) ==
    IF es = {} THEN 0
    ELSE LET e == CHOOSE x \in es : TRUE
         IN  Counter(limiter, sha256(e)).let + LetIn(limiter, es \ {e})

\* C37: over all spellings that normalise to one address, the requests let
\* through in the live short-term windows number at most 1 and those in the
\* live daily windows at most 5: the spellings share the per-email windows.
C37_PerSubjectWindows ==
    \A subject \in OtpEmails :
       LET es == {e \in Spellings : normalise(e) = subject} IN
       /\ LetIn(otpShortTermLimiter, es) <= otpShortTermLimiter.points
       /\ LetIn(otpDailyEmailLimiter, es) <= otpDailyEmailLimiter.points

\* C38: the step in which the short-term limiter's consume rejects a request
\* leaves every counter of the per-email and per-IP daily limiters as it was.
C38_ShortTripChargesNothingElse ==
    [][\A p \in RlProcs :
         (/\ rlProcs[p].pc = "short"
          /\ rlProcs'[p].pc = "done"
          /\ rlProcs'[p].resp.status = 429)
            => /\ rlStore'[otpDailyEmailLimiter.keyPrefix]
                    = rlStore[otpDailyEmailLimiter.keyPrefix]
               /\ rlStore'[otpDailyIpLimiter.keyPrefix]
                    = rlStore[otpDailyIpLimiter.keyPrefix]]_vars

\* a request was denied by the short-term consume while the daily counters
\* of its email and IP were live, and it was charged on the short-term
\* limiter alone
C38_Witness ==
    \E p \in RlProcs :
       /\ RlDone(p)
       /\ rlProcs[p].resp.status = 429
       /\ rlProcs[p].charged = {otpShortTermLimiter.keyPrefix}
       /\ Counter(otpDailyEmailLimiter, sha256(rlProcs[p].email)).consumed >= 1
       /\ Counter(otpDailyIpLimiter, rlProcs[p].ip).consumed >= 1
       /\ Counter(otpShortTermLimiter, sha256(rlProcs[p].email)).consumed >= 2

\* C39: next is called once for a request that has been answered and not at
\* all before, and every request waiting on Redis in globalRateLimiter
\* (after a trip or a store error, whether setex then works or fails) is
\* answered in the end; a cached block and a pass are answered in the step
\* in which the request arrives.
C39_NextCalledOnce ==
    /\ [](\A p \in IpProcs :
            ipProcs[p].nexts = IF ipProcs[p].pc = "done" THEN 1 ELSE 0)
    /\ [][\A p \in IpProcs :
            ipProcs'[p].id # ipProcs[p].id /\ ipProcs'[p].id # 0
               => ipProcs'[p].pc \in {"done", "block"}]_vars
    /\ \A p \in IpProcs :
          (ipProcs[p].pc # "idle" /\ ipProcs[p].pc # "done")
             ~> (ipProcs[p].pc = "done" /\ ipProcs[p].nexts = 1)

\* the limiter tripped, the write of the blacklist key failed, and next was
\* called with the error
C39_Witness ==
    \E p \in IpProcs :
       /\ ipProcs[p].pc = "done"
       /\ ipProcs[p].over
       /\ ipProcs[p].resp = IpUnhandled
       /\ ipProcs[p].nexts = 1

====
